---- MODULE Spec2Model ----
(***************************************************************************)
(* State-machine model of the Legal-Document-AI chat front end:            *)
(*   src/src/components/chat/UploadModal.tsx  (staging and submission)     *)
(*   src/src/pages/ChatPage.tsx               (registry, selection, chat,  *)
(*                                             layout, ChatSection)        *)
(* Strings are TLA+ strings; String.prototype.includes and trim are        *)
(* computed character by character.                                        *)
(***************************************************************************)
EXTENDS Integers, Sequences, FiniteSets, TLC

VARIABLES
    \* UploadModal.tsx state
    modalSelectedFiles,   \* useState<File[]> selectedFiles (the staged files)
    errors,               \* useState<string[]> errors
    \* ChatPage.tsx state
    showUploadModal,
    selectedFiles,        \* useState<string[]> selected file ids
    activeDocument,
    activeFileId,
    conversationId,
    mobileView,
    isMobileMenuOpen,
    showSourcesDesktop,
    showInsightsDesktop,
    messages,
    inputText,
    \* collaborators
    filesData,            \* result of the last file listing (useFiles data)
    serverFiles,          \* files stored by the upload collaborator
    uploads,              \* runs of handleUpload / handleFilesUploaded
    chatCalls,            \* chatMutation.mutateAsync calls
    sectionConversationId,\* ChatSection's own conversationId state
    impl,                 \* which sendMessage implementation owns the log
    now,                  \* Date.now()
    lastOp,               \* the handler invoked last and its arguments
    steps                 \* handlers run so far, in a session of bounded length

vars == <<modalSelectedFiles, errors, showUploadModal, selectedFiles,
          activeDocument, activeFileId, conversationId, mobileView,
          isMobileMenuOpen, showSourcesDesktop, showInsightsDesktop,
          messages, inputText, filesData, serverFiles, uploads, chatCalls,
          sectionConversationId, impl, now, lastOp, steps>>

uploadVars == <<modalSelectedFiles, errors, showUploadModal, filesData,
                serverFiles, uploads>>
selectionVars == <<selectedFiles, activeDocument, activeFileId>>
chatVars == <<messages, inputText, conversationId, sectionConversationId,
              chatCalls>>
layoutVars == <<mobileView, isMobileMenuOpen, showSourcesDesktop,
                showInsightsDesktop>>

----------------------------------------------------------------------------
(* Bounds of the model *)

MaxBatch == 2      \* files in one drop / file-input change
MaxStaged == 2     \* staged files
MaxErrors == 2     \* entries of the error list
MaxUploads == 2    \* runs of handleUpload
MaxSends == 2      \* sendMessage calls that issue a request
MaxClock == 1      \* ticks of Date.now()
MaxSteps == 6      \* handlers run in a session of bounded length
MaxSelected == 3   \* entries of the selection before an appending call

----------------------------------------------------------------------------
(* JavaScript values *)

\* null / undefined (an absent optional field); not a string of the domains
Null == "<null>"

\* a value that is neither null/undefined nor the empty string
Truthy(s) == s # Null /\ s # ""

\* String.prototype.includes
Includes(s, t) ==
    \E i \in 1..(Len(s) - Len(t) + 1) : SubSeq(s, i, i + Len(t) - 1) = t

\* s starts with t
StartsWith(s, t) == Len(s) >= Len(t) /\ SubSeq(s, 1, Len(t)) = t

\* the white space String.prototype.trim strips, as far as the inputs use it
WhiteSpace == {" ", "\t", "\n"}

RECURSIVE TrimStart(_)
TrimStart(s) ==
    IF Len(s) > 0 /\ SubSeq(s, 1, 1) \in WhiteSpace
    THEN TrimStart(SubSeq(s, 2, Len(s)))
    ELSE s

RECURSIVE TrimEnd(_)
TrimEnd(s) ==
    IF Len(s) > 0 /\ SubSeq(s, Len(s), Len(s)) \in WhiteSpace
    THEN TrimEnd(SubSeq(s, 1, Len(s) - 1))
    ELSE s

\* (mutant) no trimming at all
untrimmed(s) == s

\* String.prototype.trim
Trim(s) == TrimEnd(TrimStart(s))

IsPrefix(s, t) == Len(s) <= Len(t) /\ SubSeq(t, 1, Len(s)) = s

Range(s) == {s[i] : i \in 1..Len(s)}

\* sequences over S of length 1..n
SeqsUpTo(S, n) == UNION {[1..k -> S] : k \in 1..n}

----------------------------------------------------------------------------
(* UploadModal.tsx *)

MAX_FILES == 50
MAX_FILE_SIZE == 10 * 1024 * 1024
ACCEPTED_TYPES == {"application/pdf"}

\* The File objects a user can drop or pick
Files ==
    { [name |-> "a.pdf",    type |-> "application/pdf", size |-> MAX_FILE_SIZE],
      [name |-> "data.pdf", type |-> "application/pdf", size |-> MAX_FILE_SIZE],
      [name |-> "a.pdf",    type |-> "text/plain",      size |-> MAX_FILE_SIZE + 1],
      [name |-> "data.pdf", type |-> "application/pdf", size |-> MAX_FILE_SIZE + 1] }

\* uploadedFiles.length, passed as currentFileCount
currentFileCount == Len(filesData)

\* uploadMutation.isPending, passed as isUploading
isUploading == \E r \in 1..Len(uploads) : uploads[r].pc = "mutate"

validateFile(file, fileCount, staged) ==
    IF file.type \notin ACCEPTED_TYPES
    THEN file.name \o ": Only PDF files are supported"
    ELSE IF file.size > MAX_FILE_SIZE
    THEN file.name \o ": File size must be under 10MB"
    ELSE IF fileCount + Len(staged) >= MAX_FILES
    THEN "Cannot exceed " \o ToString(MAX_FILES) \o " files total"
    ELSE Null

\* (mutant) the rules of validateFile tried before the name of the file
candidateErrorValidatedFirst(file, fileCount, staged) ==
    IF validateFile(file, fileCount, staged) # Null
    THEN validateFile(file, fileCount, staged)
    ELSE IF file.name \in {staged[i].name : i \in 1..Len(staged)}
    THEN file.name \o ": File already selected"
    ELSE Null

\* (mutant) the name of the file not compared with the staged names
candidateErrorAnyName(file, fileCount, staged) ==
    validateFile(file, fileCount, staged)

\* the body of fileArray.forEach in handleFiles: the error of one candidate,
\* Null when it is valid
candidateError(file, fileCount, staged) ==
    IF file.name \in {staged[i].name : i \in 1..Len(staged)}
    THEN file.name \o ": File already selected"
    ELSE validateFile(file, fileCount, staged)

newErrorsOf(fileArray, fileCount, staged) ==
    LET errs == [i \in 1..Len(fileArray) |->
                    candidateError(fileArray[i], fileCount, staged)]
    IN  SelectSeq(errs, LAMBDA e : e # Null)

validFilesOf(fileArray, fileCount, staged) ==
    SelectSeq(fileArray,
              LAMBDA f : candidateError(f, fileCount, staged) = Null)

\* prev.filter(e => !fileArray.some(f => e.includes(f.name)))
keptErrors(prev, fileArray) ==
    SelectSeq(prev, LAMBDA e :
        ~ \E i \in 1..Len(fileArray) : Includes(e, fileArray[i].name))

Op(name, text, files, idx) ==
    [op |-> name, text |-> text, files |-> files, idx |-> idx]

\* steps when the length of the session is not bounded
Unbounded == 0 - 1

\* a handler runs: it is recorded in lastOp and counted in steps
note(name, text, files, idx) ==
    /\ steps < MaxSteps
    /\ lastOp' = Op(name, text, files, idx)
    /\ steps' = IF steps = Unbounded THEN steps ELSE steps + 1

\* handleDrop / handleFileInput -> handleFiles(files)
handleFiles(fileArray) ==
    /\ showUploadModal
    /\ errors' = keptErrors(errors, fileArray)
                    \o newErrorsOf(fileArray, currentFileCount, modalSelectedFiles)
    /\ modalSelectedFiles' = modalSelectedFiles
                    \o validFilesOf(fileArray, currentFileCount, modalSelectedFiles)
    /\ Len(modalSelectedFiles') <= MaxStaged
    /\ Len(errors') <= MaxErrors
    /\ note("handleFiles", "", fileArray,
            Len(validFilesOf(fileArray, currentFileCount, modalSelectedFiles)))
    /\ UNCHANGED <<showUploadModal, filesData, serverFiles, uploads>>
    /\ UNCHANGED <<selectionVars, chatVars, layoutVars, impl, now>>

removeFile(index) ==
    /\ showUploadModal
    /\ ~isUploading
    /\ index \in 1..Len(modalSelectedFiles)
    /\ LET removedFile == modalSelectedFiles[index]
       IN  /\ modalSelectedFiles' =
                [i \in 1..(Len(modalSelectedFiles) - 1) |->
                    IF i < index THEN modalSelectedFiles[i]
                                 ELSE modalSelectedFiles[i + 1]]
           /\ errors' = SelectSeq(errors,
                            LAMBDA e : ~Includes(e, removedFile.name))
           /\ note("removeFile", removedFile.name, <<>>, index)
    /\ UNCHANGED <<showUploadModal, filesData, serverFiles, uploads>>
    /\ UNCHANGED <<selectionVars, chatVars, layoutVars, impl, now>>

\* the "Clear All" button: setSelectedFiles([])
clearAllFiles ==
    /\ showUploadModal
    /\ ~isUploading
    /\ Len(modalSelectedFiles) > 0
    /\ modalSelectedFiles' = <<>>
    /\ note("clearAllFiles", "", <<>>, 0)
    /\ UNCHANGED <<errors, showUploadModal, filesData, serverFiles, uploads>>
    /\ UNCHANGED <<selectionVars, chatVars, layoutVars, impl, now>>

\* the "Clear" button of the error list
clearAllErrors ==
    /\ showUploadModal
    /\ Len(errors) > 0
    /\ errors' = <<>>
    /\ note("clearAllErrors", "", <<>>, 0)
    /\ UNCHANGED <<modalSelectedFiles, showUploadModal, filesData,
                   serverFiles, uploads>>
    /\ UNCHANGED <<selectionVars, chatVars, layoutVars, impl, now>>

canUpload ==
    /\ Len(modalSelectedFiles) > 0
    /\ ~isUploading
    /\ currentFileCount + Len(modalSelectedFiles) <= MAX_FILES

----------------------------------------------------------------------------
(* ChatPage.tsx: registry, selection *)

\* filesData?.files?.map(...) || []
uploadedFilesOf(data) ==
    [i \in 1..Len(data) |-> [id |-> data[i].file_id, name |-> data[i].filename]]

uploadedFiles == uploadedFilesOf(filesData)

\* what the file-storage collaborator lists after storing one more file
stored(list, file) ==
    Append(list, [file_id  |-> "f" \o ToString(Len(list) + 1),
                  filename |-> file.name])

\* useEffect: open the dialog when the registry is empty; it runs when
\* uploadedFiles.length changes
autoOpen(open, oldFiles, newFiles) ==
    IF Len(newFiles) # Len(oldFiles) /\ Len(newFiles) = 0 THEN TRUE ELSE open

\* (mutant) the default selection takes the last file of the registry
defaultSelectionLast(sel, doc, fid, files) ==
    IF Len(sel) = 0 /\ Len(files) > 0
    THEN [sel |-> <<files[Len(files)].id>>, doc |-> files[Len(files)].name,
          fid |-> files[Len(files)].id]
    ELSE [sel |-> sel, doc |-> doc, fid |-> fid]

\* useEffect (default selection), run after every render: the selection,
\* active document and active file id it leaves
defaultSelection(sel, doc, fid, files) ==
    IF Len(sel) = 0 /\ Len(files) > 0
    THEN [sel |-> <<files[1].id>>, doc |-> files[1].name, fid |-> files[1].id]
    ELSE [sel |-> sel, doc |-> doc, fid |-> fid]

\* a run of handleUpload that has returned: its closure is gone, what is
\* left is how it ended and how many mutateAsync calls it made
settled(u, how) == [files |-> <<>>, idx |-> u.idx, pc |-> how]

\* handleUpload up to its await, and handleFilesUploaded up to the first
\* uploadMutation.mutateAsync(file)
handleUpload ==
    /\ showUploadModal
    /\ canUpload
    /\ Len(uploads) < MaxUploads
    /\ errors' = <<>>
    /\ uploads' = Append(uploads,
                    [files |-> modalSelectedFiles, idx |-> 1, pc |-> "mutate"])
    /\ note("handleUpload", "", modalSelectedFiles, Len(uploads) + 1)
    /\ UNCHANGED <<modalSelectedFiles, showUploadModal, filesData, serverFiles>>
    /\ UNCHANGED <<selectionVars, chatVars, layoutVars, impl, now>>

\* uploadMutation.mutateAsync(file) resolves: the loop goes on to the next
\* file, or to refetch() after the last one
uploadResolved(r) ==
    /\ r \in 1..Len(uploads)
    /\ uploads[r].pc = "mutate"
    /\ LET u == uploads[r]
       IN  /\ serverFiles' = stored(serverFiles, u.files[u.idx])
           /\ uploads' = [uploads EXCEPT ![r] =
                            IF u.idx < Len(u.files)
                            THEN [u EXCEPT !.idx = u.idx + 1]
                            ELSE [u EXCEPT !.pc = "refetch"]]
    /\ note("uploadResolved", "", <<>>, r)
    /\ UNCHANGED <<modalSelectedFiles, errors, showUploadModal, filesData>>
    /\ UNCHANGED <<selectionVars, chatVars, layoutVars, impl, now>>

\* (mutant) a rejected upload call is skipped and the loop goes on to the
\* next file of the batch
uploadRejectedContinuing(r) ==
    /\ r \in 1..Len(uploads)
    /\ uploads[r].pc = "mutate"
    /\ LET u == uploads[r]
       IN  IF u.idx < Len(u.files)
           THEN /\ uploads' = [uploads EXCEPT ![r] = [u EXCEPT !.idx = u.idx + 1]]
                /\ UNCHANGED <<modalSelectedFiles, errors>>
           ELSE /\ uploads' = [uploads EXCEPT ![r] = settled(u, "failed")]
                /\ modalSelectedFiles' = <<>>
                /\ errors' = <<>>
    /\ note("uploadRejected", "", <<>>, r)
    /\ UNCHANGED <<showUploadModal, filesData, serverFiles>>
    /\ UNCHANGED <<selectionVars, chatVars, layoutVars, impl, now>>

\* uploadMutation.mutateAsync(file) rejects: the catch of handleFilesUploaded
\* logs the error and returns, so the await in handleUpload resolves and
\* handleUpload resets its state
uploadRejected(r) ==
    /\ r \in 1..Len(uploads)
    /\ uploads[r].pc = "mutate"
    /\ uploads' = [uploads EXCEPT ![r] = settled(uploads[r], "failed")]
    /\ modalSelectedFiles' = <<>>
    /\ errors' = <<>>
    /\ note("uploadRejected", "", <<>>, r)
    /\ UNCHANGED <<showUploadModal, filesData, serverFiles>>
    /\ UNCHANGED <<selectionVars, chatVars, layoutVars, impl, now>>

\* refetch() settles (with the listing, or with a listing error that leaves
\* the data as it was): setShowUploadModal(false), handleFilesUploaded
\* returns, handleUpload resets its state; then the effects run
refetchSettled(r, ok) ==
    /\ r \in 1..Len(uploads)
    /\ uploads[r].pc = "refetch"
    /\ uploads' = [uploads EXCEPT ![r] = settled(uploads[r], "done")]
    /\ filesData' = IF ok THEN serverFiles ELSE filesData
    /\ showUploadModal' = autoOpen(FALSE, filesData, filesData')
    /\ modalSelectedFiles' = <<>>
    /\ errors' = <<>>
    /\ LET d == defaultSelection(selectedFiles, activeDocument, activeFileId,
                                 uploadedFilesOf(filesData'))
       IN  /\ selectedFiles' = d.sel
           /\ activeDocument' = d.doc
           /\ activeFileId' = d.fid
    /\ note("refetchSettled", "", <<>>, r)
    /\ UNCHANGED serverFiles
    /\ UNCHANGED <<chatVars, layoutVars, impl, now>>

\* onClose (Cancel, or the dialog's onOpenChange)
onClose ==
    /\ showUploadModal
    /\ showUploadModal' = FALSE
    /\ note("onClose", "", <<>>, 0)
    /\ UNCHANGED <<modalSelectedFiles, errors, filesData, serverFiles, uploads>>
    /\ UNCHANGED <<selectionVars, chatVars, layoutVars, impl, now>>

\* onAddMore of the sources panel
onAddMore ==
    /\ ~showUploadModal
    /\ showSourcesDesktop
    /\ showUploadModal' = TRUE
    /\ note("onAddMore", "", <<>>, 0)
    /\ UNCHANGED <<modalSelectedFiles, errors, filesData, serverFiles, uploads>>
    /\ UNCHANGED <<selectionVars, chatVars, layoutVars, impl, now>>

\* (mutant) selecting a file also makes it the active file
handleFileSelectActivating(fileId, selected) ==
    /\ showSourcesDesktop
    /\ ~showUploadModal
    /\ LET sel == IF selected
                  THEN Append(selectedFiles, fileId)
                  ELSE SelectSeq(selectedFiles, LAMBDA id : id # fileId)
           d == defaultSelection(sel, activeDocument, activeFileId, uploadedFiles)
       IN  /\ selectedFiles' = d.sel
           /\ activeDocument' = d.doc
           /\ activeFileId' = IF selected THEN fileId ELSE d.fid
    /\ note("handleFileSelect", fileId, <<>>, IF selected THEN 1 ELSE 0)
    /\ UNCHANGED <<uploadVars, chatVars, layoutVars, impl, now>>

handleFileSelect(fileId, selected) ==
    /\ showSourcesDesktop
    /\ ~showUploadModal
    /\ LET sel == IF selected
                  THEN Append(selectedFiles, fileId)
                  ELSE SelectSeq(selectedFiles, LAMBDA id : id # fileId)
           d == defaultSelection(sel, activeDocument, activeFileId, uploadedFiles)
       IN  /\ selectedFiles' = d.sel
           /\ activeDocument' = d.doc
           /\ activeFileId' = d.fid
    /\ note("handleFileSelect", fileId, <<>>, IF selected THEN 1 ELSE 0)
    /\ UNCHANGED <<uploadVars, chatVars, layoutVars, impl, now>>

handleFileClick(file) ==
    /\ showSourcesDesktop
    /\ ~showUploadModal
    /\ activeDocument' = file.name
    /\ activeFileId' = file.id
    /\ selectedFiles' = IF file.id \notin Range(selectedFiles)
                        THEN Append(selectedFiles, file.id)
                        ELSE selectedFiles
    /\ note("handleFileClick", file.id, <<>>, 0)
    /\ UNCHANGED <<uploadVars, chatVars, layoutVars, impl, now>>

\* handleFileSelect(file.id, selected) and handleFileClick(file) called in
\* one event, before the re-render: the updater functions are applied in
\* the order of the calls, and handleFileClick tests the selectedFiles of
\* the render both handlers were created in; then the effects run
handleFileSelectAndClick(file, selected) ==
    /\ showSourcesDesktop
    /\ ~showUploadModal
    /\ LET toggled == IF selected
                      THEN Append(selectedFiles, file.id)
                      ELSE SelectSeq(selectedFiles, LAMBDA id : id # file.id)
           sel == IF file.id \notin Range(selectedFiles)
                  THEN Append(toggled, file.id)
                  ELSE toggled
           d == defaultSelection(sel, file.name, file.id, uploadedFiles)
       IN  /\ selectedFiles' = d.sel
           /\ activeDocument' = d.doc
           /\ activeFileId' = d.fid
    /\ note("handleFileSelectAndClick", file.id, <<>>, IF selected THEN 1 ELSE 0)
    /\ UNCHANGED <<uploadVars, chatVars, layoutVars, impl, now>>

----------------------------------------------------------------------------
(* ChatPage.tsx: layout *)

MobileViews == {"chat", "sources", "insights"}

setMobileView(v) ==
    /\ ~showUploadModal
    /\ mobileView' = v
    /\ note("setMobileView", v, <<>>, 0)
    /\ UNCHANGED <<isMobileMenuOpen, showSourcesDesktop, showInsightsDesktop>>
    /\ UNCHANGED <<uploadVars, selectionVars, chatVars, impl, now>>

toggleMobileMenu ==
    /\ ~showUploadModal
    /\ isMobileMenuOpen' = ~isMobileMenuOpen
    /\ note("toggleMobileMenu", "", <<>>, 0)
    /\ UNCHANGED <<mobileView, showSourcesDesktop, showInsightsDesktop>>
    /\ UNCHANGED <<uploadVars, selectionVars, chatVars, impl, now>>

toggleSourcesDesktop ==
    /\ ~showUploadModal
    /\ showSourcesDesktop' = ~showSourcesDesktop
    /\ note("toggleSourcesDesktop", "", <<>>, 0)
    /\ UNCHANGED <<mobileView, isMobileMenuOpen, showInsightsDesktop>>
    /\ UNCHANGED <<uploadVars, selectionVars, chatVars, impl, now>>

toggleInsightsDesktop ==
    /\ ~showUploadModal
    /\ showInsightsDesktop' = ~showInsightsDesktop
    /\ note("toggleInsightsDesktop", "", <<>>, 0)
    /\ UNCHANGED <<mobileView, isMobileMenuOpen, showSourcesDesktop>>
    /\ UNCHANGED <<uploadVars, selectionVars, chatVars, impl, now>>

----------------------------------------------------------------------------
(* ChatPage.tsx: sendMessage, and ChatSection's own implementations *)

\* The three implementations of sendMessage:
\*   "ChatPage"      ChatPage.sendMessage (lines 106-143), handed to
\*                   ChatSection as the sendMessage prop
\*   "ChatSection"   the first ChatSection's sendMessage (lines 349-394)
\*   "ChatSection2"  the second ChatSection's internalSendMessage
\*                   (lines 654-692), used when no sendMessage prop is given
Impls == {"ChatPage", "ChatSection", "ChatSection2"}

suggestedQuestions ==
    << "What are the key risks?",
       "Summarize this in simple terms",
       "Any hidden fees?",
       "What are my obligations?",
       "What if I terminate?",
       "Any unusual terms?" >>

\* chatMutation.isPending: the mutation started last is still pending
isLoading ==
    Len(chatCalls) > 0 /\ chatCalls[Len(chatCalls)].status = "pending"

\* the conversationId state the running implementation reads and writes
ownConversationId ==
    IF impl = "ChatPage" THEN conversationId ELSE sectionConversationId

\* conversationId || undefined
orUndefined(v) == IF Truthy(v) THEN v ELSE Null

\* (mutant) the request never carries the conversation id
payloadWithoutConversation(text, fileId, convId) ==
    [message         |-> Trim(text),
     file_id         |-> orUndefined(fileId),
     conversation_id |-> Null]

\* the argument of chatMutation.mutateAsync
payloadOf(text, fileId, convId) ==
    [message         |-> Trim(text),
     file_id         |-> orUndefined(fileId),
     conversation_id |-> orUndefined(convId)]

userMessageOf(text, convId, clock) ==
    [id              |-> ToString(clock),
     text            |-> Trim(text),
     sender          |-> "user",
     timestamp       |-> clock,
     conversation_id |-> orUndefined(convId)]

aiMessageOf(response, clock) ==
    [id              |-> IF Truthy(response.message_id)
                         THEN response.message_id
                         ELSE ToString(clock + 1),
     text            |-> IF Truthy(response.response)
                         THEN response.response
                         ELSE "I received your message.",
     sender          |-> "ai",
     timestamp       |-> clock,
     conversation_id |-> response.conversation_id]

\* the text of the message appended by the catch branch
errorTextOf(which, reason) ==
    (IF which = "ChatSection" THEN "Error: "
                              ELSE "Sorry, I encountered an error: ")
        \o (IF Truthy(reason) THEN reason ELSE "Please try again.")

errorMessageOf(which, reason, clock) ==
    [id              |-> ToString(clock + 1),
     text            |-> errorTextOf(which, reason),
     sender          |-> "ai",
     timestamp       |-> clock,
     conversation_id |-> Null]

\* the conversation id after a response, given the id captured by the
\* closure of the call (convId) and the state now (current)
adoptedId(convId, current, response) ==
    IF ~Truthy(convId) /\ Truthy(response.conversation_id)
    THEN response.conversation_id
    ELSE current

\* sendMessage(text) up to the await of chatMutation.mutateAsync
sendMessage(text) ==
    /\ note("sendMessage", text, <<>>, 0)
    /\ IF Trim(text) = ""
       THEN UNCHANGED chatVars
       ELSE /\ Len(chatCalls) < MaxSends
            /\ messages' = Append(messages,
                             userMessageOf(text, ownConversationId, now))
            /\ inputText' = ""
            /\ chatCalls' = Append(chatCalls,
                             [payload |-> payloadOf(text, activeFileId,
                                                    ownConversationId),
                              conversationId |-> ownConversationId,
                              status |-> "pending"])
            /\ UNCHANGED <<conversationId, sectionConversationId>>
    /\ UNCHANGED <<uploadVars, selectionVars, layoutVars, impl, now>>

\* onChange of the input (disabled while isLoading)
setInputText(v) ==
    /\ ~showUploadModal
    /\ ~isLoading
    /\ inputText' = v
    /\ note("setInputText", v, <<>>, 0)
    /\ UNCHANGED <<messages, conversationId, sectionConversationId, chatCalls>>
    /\ UNCHANGED <<uploadVars, selectionVars, layoutVars, impl, now>>

\* onSubmit of the form; the submit button is disabled when the input is
\* blank or isLoading
handleSubmit ==
    /\ ~showUploadModal
    /\ Trim(inputText) # ""
    /\ ~isLoading
    /\ sendMessage(inputText)

\* (mutant) the pills are dead while a call is pending
handleSuggestedSerialised(q) ==
    /\ ~showUploadModal
    /\ ~isLoading
    /\ sendMessage(q)

\* onClick of a suggested-question pill
handleSuggested(q) ==
    /\ ~showUploadModal
    /\ sendMessage(q)

\* chatMutation.mutateAsync resolves with response
chatResolved(i, response) ==
    /\ i \in 1..Len(chatCalls)
    /\ chatCalls[i].status = "pending"
    /\ chatCalls' = [chatCalls EXCEPT ![i].status = "resolved"]
    /\ LET id == adoptedId(chatCalls[i].conversationId, ownConversationId,
                           response)
       IN  IF impl = "ChatPage"
           THEN /\ conversationId' = id
                /\ UNCHANGED sectionConversationId
           ELSE \* setConversationId, then onConversationIdChange (called
                \* directly and by the effect on conversationId)
                /\ sectionConversationId' = id
                /\ conversationId' = IF Truthy(id) THEN id ELSE conversationId
    /\ messages' = Append(messages, aiMessageOf(response, now))
    /\ note("chatResolved", "", <<>>, i)
    /\ UNCHANGED inputText
    /\ UNCHANGED <<uploadVars, selectionVars, layoutVars, impl, now>>

\* (mutant) a failed call is swallowed: nothing is appended
chatRejectedSilently(i, reason) ==
    /\ i \in 1..Len(chatCalls)
    /\ chatCalls[i].status = "pending"
    /\ chatCalls' = [chatCalls EXCEPT ![i].status = "rejected"]
    /\ note("chatRejected", reason, <<>>, i)
    /\ UNCHANGED <<messages, inputText, conversationId, sectionConversationId>>
    /\ UNCHANGED <<uploadVars, selectionVars, layoutVars, impl, now>>

\* (mutant) a failed call replaces the last message of the log by the error
chatRejectedReplacing(i, reason) ==
    /\ i \in 1..Len(chatCalls)
    /\ chatCalls[i].status = "pending"
    /\ chatCalls' = [chatCalls EXCEPT ![i].status = "rejected"]
    /\ messages' = [messages EXCEPT
                       ![Len(messages)] = errorMessageOf(impl, reason, now)]
    /\ note("chatRejected", reason, <<>>, i)
    /\ UNCHANGED <<inputText, conversationId, sectionConversationId>>
    /\ UNCHANGED <<uploadVars, selectionVars, layoutVars, impl, now>>

\* chatMutation.mutateAsync rejects with an error whose message is reason
chatRejected(i, reason) ==
    /\ i \in 1..Len(chatCalls)
    /\ chatCalls[i].status = "pending"
    /\ chatCalls' = [chatCalls EXCEPT ![i].status = "rejected"]
    /\ messages' = Append(messages, errorMessageOf(impl, reason, now))
    /\ note("chatRejected", reason, <<>>, i)
    /\ UNCHANGED <<inputText, conversationId, sectionConversationId>>
    /\ UNCHANGED <<uploadVars, selectionVars, layoutVars, impl, now>>

\* time passes
tick ==
    /\ now < MaxClock
    /\ now' = now + 1
    /\ note("tick", "", <<>>, 0)
    /\ UNCHANGED <<uploadVars, selectionVars, chatVars, layoutVars, impl>>

----------------------------------------------------------------------------
(* Initial states and specifications *)

\* a listing of n stored files
registryOf(n) ==
    [i \in 1..n |-> [file_id  |-> "f" \o ToString(i),
                     filename |-> "doc" \o ToString(i) \o ".pdf"]]

\* The state once the page is mounted and the first listing has arrived:
\* the effects have opened the dialog on an empty registry and selected the
\* first file of a non-empty one
InitSession(counts, impls, bounded) ==
    /\ \E n \in counts :
          /\ filesData = registryOf(n)
          /\ serverFiles = registryOf(n)
          /\ showUploadModal = (n = 0)
          /\ LET d == defaultSelection(<<>>, Null, Null,
                                       uploadedFilesOf(registryOf(n)))
             IN  /\ selectedFiles = d.sel
                 /\ activeDocument = d.doc
                 /\ activeFileId = d.fid
    /\ modalSelectedFiles = <<>>
    /\ errors = <<>>
    /\ uploads = <<>>
    /\ conversationId = Null
    /\ sectionConversationId = Null
    /\ messages = <<>>
    /\ inputText = ""
    /\ chatCalls = <<>>
    /\ mobileView = "chat"
    /\ isMobileMenuOpen = FALSE
    /\ showSourcesDesktop = TRUE
    /\ showInsightsDesktop = TRUE
    /\ impl \in impls
    /\ now = 0
    /\ lastOp = Op("mount", "", <<>>, 0)
    /\ steps = IF bounded THEN 0 ELSE Unbounded

\* what the user types
Texts == {"", " \t", " hi "}

\* what the chat collaborator answers to call i
Responses(i) ==
    { [response |-> Null, message_id |-> Null, conversation_id |-> Null],
      [response |-> "",   message_id |-> "",   conversation_id |-> ""],
      [response |-> "hi", message_id |-> "m" \o ToString(i),
       conversation_id |-> "c1"],
      [response |-> "hi", message_id |-> "m" \o ToString(i),
       conversation_id |-> "c2"] }

\* error?.message of a failed chat call
Reasons == {Null, "boom"}

\* the suggested-question pills the user clicks
Pills == {1}

\* staging: every batch of up to MaxBatch files
NextStaging ==
    \/ \E fileArray \in SeqsUpTo(Files, MaxBatch) : handleFiles(fileArray)
    \/ \E index \in 1..MaxStaged : removeFile(index)
    \/ clearAllFiles
    \/ clearAllErrors
    \/ onClose
    \/ onAddMore

\* the batches dropped while submissions are followed
PdfBatches ==
    LET a == [name |-> "a.pdf", type |-> "application/pdf", size |-> MAX_FILE_SIZE]
        d == [name |-> "data.pdf", type |-> "application/pdf", size |-> MAX_FILE_SIZE]
    IN  {<<a>>, <<d>>, <<a, d>>}

\* staging and submission
NextUploadFlow ==
    \/ \E fileArray \in PdfBatches : handleFiles(fileArray)
    \/ \E index \in 1..MaxStaged : removeFile(index)
    \/ clearAllFiles
    \/ clearAllErrors
    \/ handleUpload
    \/ \E r \in 1..MaxUploads : uploadResolved(r)
    \/ \E r \in 1..MaxUploads : uploadRejected(r)
    \/ \E r \in 1..MaxUploads, ok \in BOOLEAN : refetchSettled(r, ok)
    \/ onClose
    \/ onAddMore

\* The form and the pills never call sendMessage with a blank text (the submit
\* button is disabled on a blank input); another holder of the sendMessage
\* prop can
BlankTexts == {"", " \t"}

NextChat ==
    \/ \E text \in BlankTexts : sendMessage(text)
    \/ \E v \in Texts : setInputText(v)
    \/ handleSubmit
    \/ \E k \in Pills : handleSuggested(suggestedQuestions[k])
    \/ \E i \in 1..MaxSends : \E response \in Responses(i) : chatResolved(i, response)
    \/ \E i \in 1..MaxSends, reason \in Reasons : chatRejected(i, reason)

NextSelection ==
    \/ \E k \in 1..Len(uploadedFiles) :
          handleFileSelect(uploadedFiles[k].id,
                           uploadedFiles[k].id \notin Range(selectedFiles))
    \/ \E k \in 1..Len(uploadedFiles) : handleFileClick(uploadedFiles[k])

NextLayout ==
    \/ \E v \in MobileViews : setMobileView(v)
    \/ toggleMobileMenu
    \/ toggleSourcesDesktop
    \/ toggleInsightsDesktop

\* The upload dialog, on an empty registry and on one a file short of the
\* maximum
InitUpload == InitSession({0, MAX_FILES - 1}, {"ChatPage"}, FALSE)
SpecUpload == InitUpload /\ [][NextUploadFlow]_vars
SpecStaging == InitUpload /\ [][NextStaging]_vars

\* The conversation, under each implementation of sendMessage
InitChat == InitSession({1}, Impls, FALSE)
SpecChat == InitChat /\ [][NextChat]_vars

\* The sources panel over a registry of two or three files
NextSelectionFlow ==
    \/ NextSelection
    \/ toggleSourcesDesktop
    \/ onAddMore
    \/ onClose

InitSelection == InitSession({2, 3}, {"ChatPage"}, FALSE)
SpecSelection == InitSelection /\ [][NextSelectionFlow]_vars

\* The handlers handed to the sources panel, called with either value of
\* selected, one at a time or both in one event
NextSelectionCalls ==
    \/ \E k \in 1..Len(uploadedFiles), selected \in BOOLEAN :
          /\ Len(selectedFiles) < MaxSelected
          /\ handleFileSelect(uploadedFiles[k].id, selected)
    \/ \E k \in 1..Len(uploadedFiles) :
          /\ Len(selectedFiles) < MaxSelected
          /\ handleFileClick(uploadedFiles[k])
    \/ \E k \in 1..Len(uploadedFiles) :
          /\ Len(selectedFiles) < MaxSelected
          /\ handleFileSelectAndClick(uploadedFiles[k],
                    uploadedFiles[k].id \notin Range(selectedFiles))
    \/ toggleSourcesDesktop

SpecSelectionCalls == InitSelection /\ [][NextSelectionCalls]_vars

\* Every handler of the page, in sessions of at most MaxSteps handlers
Next ==
    \/ \E fileArray \in PdfBatches : handleFiles(fileArray)
    \/ \E index \in 1..MaxStaged : removeFile(index)
    \/ clearAllFiles
    \/ clearAllErrors
    \/ handleUpload
    \/ \E r \in 1..MaxUploads : uploadResolved(r)
    \/ \E r \in 1..MaxUploads : uploadRejected(r)
    \/ \E r \in 1..MaxUploads : refetchSettled(r, TRUE)
    \/ onClose
    \/ onAddMore
    \/ NextSelection
    \/ NextLayout
    \/ \E text \in {""} : sendMessage(text)
    \/ \E v \in {" hi "} : setInputText(v)
    \/ handleSubmit
    \/ \E k \in Pills : handleSuggested(suggestedQuestions[k])
    \/ \E i \in 1..MaxSends : \E response \in Responses(i) : chatResolved(i, response)
    \/ \E i \in 1..MaxSends, reason \in Reasons : chatRejected(i, reason)
    \/ tick

Init == InitSession({0, 1}, {"ChatPage"}, TRUE)
Spec == Init /\ [][Next]_vars

----------------------------------------------------------------------------
(* Properties *)

\* how often file name n is staged in list
timesStaged(list, n) == Cardinality({i \in 1..Len(list) : list[i].name = n})

\* the entries of an error list that name file n: "<n>: ..."
entriesNaming(list, n) ==
    {j \in 1..Len(list) : StartsWith(list[j], n \o ": ")}

\* the last k entries of a list
lastEntries(list, k) == SubSeq(list, Len(list) - k + 1, Len(list))

\* the run of handleUpload whose upload call failed in this step
failedNow(r) ==
    /\ r \in 1..Len(uploads)
    /\ uploads[r].pc = "mutate"
    /\ uploads'[r].pc = "failed"

\* C1 (as claimed): when a per-file upload call of a submission rejects, then
\* once handleUpload has finished the staged files are still the ones that
\* were staged, the error list is exactly one "Upload failed: ..." entry and
\* the dialog has not been closed.
C1_FailureKeepsStagedFiles ==
    [][\A r \in 1..MaxUploads :
          failedNow(r) =>
              /\ modalSelectedFiles' = modalSelectedFiles
              /\ IsPrefix(uploads[r].files, modalSelectedFiles')
              /\ Len(errors') = 1
              /\ StartsWith(errors'[1], "Upload failed: ")
              /\ showUploadModal' = showUploadModal]_vars

\* C2 (as claimed): once the conversation id is set it never changes, under
\* every interleaving of sendMessage calls and their responses.
C2_ConversationIdStable ==
    [][Truthy(conversationId) => conversationId' = conversationId]_vars

\* a sendMessage call issues its request in this step
requestIssued == Len(chatCalls') = Len(chatCalls) + 1

\* C3: the request a sendMessage call issues carries the conversation id
\* adopted at the moment the call starts, and carries none exactly when none
\* has been adopted by then.
C3_RequestCarriesAdoptedId ==
    [][requestIssued =>
          LET request == chatCalls'[Len(chatCalls')].payload
          IN  /\ Truthy(conversationId) =>
                    request.conversation_id = conversationId
              /\ request.conversation_id = Null <=> ~Truthy(conversationId)]_vars

\* a second request has been issued after "c1" was adopted, and carries it
C3_Witness ==
    /\ Len(chatCalls) = 2
    /\ chatCalls[1].payload.conversation_id = Null
    /\ chatCalls[1].status = "resolved"
    /\ chatCalls[2].payload.conversation_id = "c1"
    /\ conversationId = "c1"

\* text is empty or white space only
isBlank(text) ==
    \A i \in 1..Len(text) : SubSeq(text, i, i) \in {" ", "\t", "\n"}

\* C4: sendMessage(text) with blank text changes neither the message log nor
\* the conversation id nor the input text, and issues no chat request.
C4_BlankSendIsNoOp ==
    [][(lastOp'.op = "sendMessage" /\ isBlank(lastOp'.text)) =>
          UNCHANGED <<messages, conversationId, sectionConversationId,
                      inputText, chatCalls>>]_vars

\* sendMessage has just been called with white space, in a session that has
\* a log, a conversation id and a typed input to lose
C4_Witness ==
    /\ lastOp.op = "sendMessage"
    /\ lastOp.text = " \t"
    /\ Len(messages) = 2
    /\ conversationId = "c1"
    /\ inputText = " hi "

numMessagesOf(who) ==
    Cardinality({k \in 1..Len(messages) : messages[k].sender = who})

numCalls(states) ==
    Cardinality({i \in 1..Len(chatCalls) : chatCalls[i].status \in states})

\* call i settles (resolves or rejects) in this step
settlesNow(i) ==
    /\ i \in 1..Len(chatCalls)
    /\ chatCalls[i].status = "pending"
    /\ chatCalls'[i].status # "pending"

\* C5: the step that issues a request appends the user message (trimmed
\* text) and clears the input; the step that settles a call appends exactly
\* one AI message, after the user message of that call; so the AI messages
\* are as many as the settled calls, and the user messages exceed them by the
\* calls in flight.
C5_OptimisticAppendThenOneReply ==
    /\ [](/\ numMessagesOf("user") = Len(chatCalls)
          /\ numMessagesOf("ai") = numCalls({"resolved", "rejected"})
          /\ numMessagesOf("user") - numMessagesOf("ai") = numCalls({"pending"}))
    /\ [][/\ requestIssued =>
                /\ Len(messages') = Len(messages) + 1
                /\ IsPrefix(messages, messages')
                /\ messages'[Len(messages')].sender = "user"
                /\ messages'[Len(messages')].text \in {"hi", suggestedQuestions[1]}
                /\ messages'[Len(messages')].text =
                      chatCalls'[Len(chatCalls')].payload.message
                /\ inputText' = ""
          /\ \A i \in 1..MaxSends :
                settlesNow(i) =>
                    /\ Len(messages') = Len(messages) + 1
                    /\ IsPrefix(messages, messages')
                    /\ messages'[Len(messages')].sender = "ai"
                    /\ numMessagesOf("user") >= i]_vars

\* two calls were in flight together; one has failed, one has succeeded
C5_Witness ==
    /\ Len(chatCalls) = 2
    /\ chatCalls[1].status = "rejected"
    /\ chatCalls[2].status = "resolved"
    /\ Len(messages) = 4
    /\ messages[2].sender = "user"
    /\ messages[3].sender = "ai"
    /\ messages[3].conversation_id = "c1"

\* C6 (as claimed): when the chat call of a sendMessage fails, one AI message
\* "Sorry, I encountered an error: <reason or fallback>" without conversation
\* id is appended, the conversation id stays as it is and no further request
\* is issued, in every implementation of sendMessage.
C6_FailureMessage ==
    [][\A i \in 1..MaxSends :
          (settlesNow(i) /\ chatCalls'[i].status = "rejected") =>
              /\ Len(messages') = Len(messages) + 1
              /\ IsPrefix(messages, messages')
              /\ messages'[Len(messages')].sender = "ai"
              /\ messages'[Len(messages')].text \in
                    {"Sorry, I encountered an error: boom",
                     "Sorry, I encountered an error: Please try again."}
              /\ Includes(messages'[Len(messages')].text,
                          IF Truthy(lastOp'.text) THEN lastOp'.text
                                                  ELSE "Please try again.")
              /\ messages'[Len(messages')].conversation_id = Null
              /\ conversationId' = conversationId
              /\ Len(chatCalls') = Len(chatCalls)]_vars

\* C7: the message log is append-only: in every step of every handler the log
\* before the step is a prefix of the log after it.
C7_LogAppendOnly ==
    [][IsPrefix(messages, messages')]_vars

\* a log with a user message and its reply has been through the staging and
\* the submission of a file
C7_Witness ==
    /\ Len(messages) >= 2
    /\ messages[1].sender = "user"
    /\ messages[2].sender = "ai"
    /\ lastOp.op = "handleUpload"

\* the names staged in list
namesStaged(list) == {list[i].name : i \in 1..Len(list)}

\* the rules of the validation policy, for a candidate met with fileCount
\* stored files and the list staged
failsType(file) == file.type # "application/pdf"
failsSize(file) == file.size > 10 * 1024 * 1024
failsCount(fileCount, staged) == fileCount + Len(staged) >= 50
failsName(file, staged) == file.name \in namesStaged(staged)

typeError(file) == file.name \o ": Only PDF files are supported"
sizeError(file) == file.name \o ": File size must be under 10MB"
countError == "Cannot exceed 50 files total"
nameError(file) == file.name \o ": File already selected"

\* the error of the first rule failed in the order type, size, count, name
claimedError(file, fileCount, staged) ==
    IF failsType(file) THEN typeError(file)
    ELSE IF failsSize(file) THEN sizeError(file)
    ELSE IF failsCount(fileCount, staged) THEN countError
    ELSE IF failsName(file, staged) THEN nameError(file)
    ELSE Null

\* the error of the first rule failed in the order name, type, size, count
amendedError(file, fileCount, staged) ==
    IF failsName(file, staged) THEN nameError(file)
    ELSE IF failsType(file) THEN typeError(file)
    ELSE IF failsSize(file) THEN sizeError(file)
    ELSE IF failsCount(fileCount, staged) THEN countError
    ELSE Null

\* handleFiles has run in this step, on the batch lastOp'.files
handledFiles == lastOp'.op = "handleFiles"

\* the errors of the rejected candidates of a batch, in batch order, when
\* each candidate's error is errorOf(candidate)
reported(batch, errorOf(_)) ==
    SelectSeq([i \in 1..Len(batch) |-> errorOf(batch[i])], LAMBDA e : e # Null)

C9_OneErrorPerRejectedFile ==
    [][handledFiles =>
          \A i \in 1..Len(lastOp'.files) :
              LET file == lastOp'.files[i]
              IN  (failsType(file) \/ failsSize(file)) =>
                      /\ IsPrefix(modalSelectedFiles, modalSelectedFiles')
                      /\ \A k \in (Len(modalSelectedFiles) + 1)
                                    ..Len(modalSelectedFiles') :
                            modalSelectedFiles'[k] # file
                      /\ Cardinality(entriesNaming(errors', file.name)) = 1]_vars

\* C10: when a batch holds a candidate whose name is staged once, from an
\* earlier batch, handleFiles leaves that name staged once and records
\* "<name>: File already selected".
C10_RestagingRejected ==
    [][handledFiles =>
          \A i \in 1..Len(lastOp'.files) :
              LET n == lastOp'.files[i].name
              IN  timesStaged(modalSelectedFiles, n) = 1 =>
                      /\ timesStaged(modalSelectedFiles', n) = 1
                      /\ Len(modalSelectedFiles') >= Len(modalSelectedFiles)
                      /\ \E j \in 1..Len(errors') :
                            errors'[j] = n \o ": File already selected"]_vars

\* a valid file has been dropped again in a batch of its own: it is staged
\* once and reported as already selected
C10_Witness ==
    /\ lastOp.op = "handleFiles"
    /\ Len(lastOp.files) = 1
    /\ lastOp.files[1].name = "a.pdf"
    /\ ~failsType(lastOp.files[1])
    /\ ~failsSize(lastOp.files[1])
    /\ timesStaged(modalSelectedFiles, "a.pdf") = 1
    /\ errors = <<"a.pdf: File already selected">>

\* C11 (as claimed): after any sequence of staging batches and removals the
\* stored files and the staged files together are at most 50.
C11_TotalWithinMaximum ==
    Len(uploadedFiles) + Len(modalSelectedFiles) <= 50

\* C12 (as claimed): when a batch of which no candidate was staged is handed
\* to handleFiles again right away, the error list after the second call is
\* the error list after the first, whatever rule rejected the candidates.
C12_RevalidationDoesNotDouble ==
    [][(/\ lastOp.op = "handleFiles"
        /\ lastOp.idx = 0
        /\ handledFiles
        /\ lastOp'.files = lastOp.files) => errors' = errors]_vars

\* list without its entry at index
without(list, index) ==
    [i \in 1..(Len(list) - 1) |-> IF i < index THEN list[i] ELSE list[i + 1]]

\* C13 (as claimed): removeFile(index) removes the staged file at index and
\* the error entries "<its name>: ...", and leaves the other staged files and
\* the error entries about other files as they are.
C13_RemoveFileFrame ==
    [][lastOp'.op = "removeFile" =>
          LET index == lastOp'.idx
              name == modalSelectedFiles[index].name
          IN  /\ modalSelectedFiles' = without(modalSelectedFiles, index)
              /\ errors' = SelectSeq(errors,
                              LAMBDA e : ~StartsWith(e, name \o ": "))]_vars

\* the first file of the registry is the active file and the only selected one
firstFileChosen ==
    /\ selectedFiles' = <<uploadedFiles'[1].id>>
    /\ activeFileId' = uploadedFiles'[1].id
    /\ activeDocument' = uploadedFiles'[1].name

\* C14: a non-empty registry never comes with an empty selection; when the
\* registry goes from empty to non-empty under an empty selection, and when
\* the only selected file is deselected, the first file in registry order
\* becomes the active file and the only member of the selection.
C14_DefaultSelection ==
    /\ [](Len(uploadedFiles) > 0 => Len(selectedFiles) > 0)
    /\ [][/\ (/\ Len(uploadedFiles) = 0
              /\ Len(selectedFiles) = 0
              /\ Len(uploadedFiles') > 0) => firstFileChosen
          /\ (/\ lastOp'.op = "handleFileSelect"
              /\ lastOp'.idx = 0
              /\ selectedFiles = <<lastOp'.text>>) => firstFileChosen]_vars

\* the registry has gone from empty to two uploaded files: f1 is active and
\* alone in the selection
C14_Witness ==
    /\ lastOp.op = "refetchSettled"
    /\ Len(uploadedFiles) = 2
    /\ uploadedFiles[1].name = "a.pdf"
    /\ selectedFiles = <<"f1">>
    /\ activeFileId = "f1"
    /\ activeDocument = "a.pdf"

\* C15 (as claimed): in every reachable state the active file id, if set, is
\* one of the selected file ids.
C15_ActiveFileIsSelected ==
    Truthy(activeFileId) => activeFileId \in Range(selectedFiles)

\* a run of handleUpload starts in this step
startsUpload == Len(uploads') = Len(uploads) + 1

\* run r of handleUpload / handleFilesUploaded has not returned yet
unfinished(r) ==
    /\ r \in 1..Len(uploads)
    /\ uploads[r].pc \in {"mutate", "refetch"}

\* C16 (as claimed): a submission starts only with a staged file, with no
\* earlier run still under way (the wait for the listing included) and with
\* stored + staged at most 50.
C16_OneSubmissionAtATime ==
    [][startsUpload =>
          /\ Len(modalSelectedFiles) > 0
          /\ ~ \E r \in 1..MaxUploads : unfinished(r)
          /\ Len(uploadedFiles) + Len(modalSelectedFiles) <= 50]_vars

\* C17: in a run the upload calls go one after the other in staged order:
\* the call for the next file starts in the step in which the call in flight
\* resolves and its file is stored; a failing call stores nothing and ends
\* the run, which makes no call afterwards.
C17_SequentialUpload ==
    [][\A r \in 1..MaxUploads :
          r \in 1..Len(uploads) =>
              LET u == uploads[r]
                  v == uploads'[r]
              IN  /\ v.idx \in {u.idx, u.idx + 1}
                  /\ v.idx = u.idx + 1 =>
                        /\ u.pc = "mutate"
                        /\ v.pc = "mutate"
                        /\ u.idx < Len(u.files)
                        /\ Len(serverFiles') = Len(serverFiles) + 1
                        /\ serverFiles'[Len(serverFiles')].filename =
                              u.files[u.idx].name
                  /\ (u.pc = "mutate" /\ v.pc = "failed") =>
                        serverFiles' = serverFiles
                  /\ u.pc \in {"failed", "done"} => v = u]_vars

\* the second call of a batch of two is in flight, the first file is stored
C17_Witness ==
    \E r \in 1..Len(uploads) :
        /\ uploads[r].pc = "mutate"
        /\ Len(uploads[r].files) = 2
        /\ uploads[r].idx = 2
        /\ Len(serverFiles) > 0
        /\ serverFiles[Len(serverFiles)].filename = uploads[r].files[1].name

\* run r returns in this step
finishesNow(r) ==
    /\ unfinished(r)
    /\ uploads'[r].pc \in {"done", "failed"}

\* C18 (as claimed): a run that returns having stored a file returns from the
\* wait for the listing, also when a later file of the batch failed.
C18_ListingAfterEveryBatch ==
    [][\A r \in 1..MaxUploads :
          finishesNow(r) =>
              \/ uploads[r].pc = "refetch"
              \/ uploads[r].pc = "mutate" /\ uploads[r].idx = 1]_vars

\* C19 (as claimed): whenever the dialog is closed nothing is staged and the
\* error list is empty.
C19_ClosedDialogIsEmpty ==
    ~showUploadModal => (modalSelectedFiles = <<>> /\ errors = <<>>)

\* C20: a suggested question can be sent whenever the dialog is closed,
\* whether or not earlier calls are awaiting their responses.
C20_SendsNotSerialised ==
    (~showUploadModal /\ Len(chatCalls) < MaxSends) =>
        ENABLED handleSuggested(suggestedQuestions[1])

\* the log reads u1, u2, a2, a1: the reply to the first message comes last
C20_Witness ==
    /\ Len(messages) = 4
    /\ messages[1].sender = "user"
    /\ messages[2].sender = "user"
    /\ messages[3].id = "m2"
    /\ messages[4].id = "m1"
    /\ messages[4].sender = "ai"

\* C21 (as claimed): the selection holds each file id at most once, after any
\* sequence of handleFileSelect(id, true / false) and handleFileClick calls
\* and default selections, two calls in one event included.
C21_SelectionIsASet ==
    Cardinality(Range(selectedFiles)) = Len(selectedFiles)

\* handleFileSelect has run alone in this step, on the id lastOp'.text
selectToggled == lastOp'.op = "handleFileSelect"

\* the selection the call of this step asks for
requestedSelection ==
    IF lastOp'.idx = 1
    THEN Append(selectedFiles, lastOp'.text)
    ELSE SelectSeq(selectedFiles, LAMBDA id : id # lastOp'.text)

\* C22 (as claimed): handleFileSelect, with the effects it triggers, leaves
\* the active file id and the active document name as they are.
C22_ClaimedIndependence ==
    [][selectToggled => UNCHANGED <<activeFileId, activeDocument>>]_vars

\* C22 (amended): handleFileSelect leaves the active file id and the active
\* document name as they are unless it empties the selection; then the
\* default selection makes the first file of the registry the active file
\* and the only selected one.
C22_SelectionLeavesActivation ==
    [][selectToggled =>
          IF requestedSelection # <<>>
          THEN /\ selectedFiles' = requestedSelection
               /\ UNCHANGED <<activeFileId, activeDocument>>
          ELSE firstFileChosen]_vars

\* f1 has just been deselected and is selected: the selection was emptied and
\* the default selection has chosen the first file again
C22_Witness ==
    /\ lastOp.op = "handleFileSelect"
    /\ lastOp.idx = 0
    /\ lastOp.text = "f1"
    /\ selectedFiles = <<"f1">>
    /\ activeFileId = "f1"
    /\ activeDocument = uploadedFiles[1].name

\* C23 (as claimed): the ids of the messages of the log are pairwise
\* distinct in every reachable state.
C23_MessageIdsDistinct ==
    \A i \in 1..Len(messages) : \A j \in 1..Len(messages) :
        i # j => messages[i].id # messages[j].id

\* C24 (as claimed): no two staged files have the same name, after any
\* sequence of handleFiles batches and removeFile calls.
C24_StagedNamesDistinct ==
    \A i \in 1..Len(modalSelectedFiles) : \A j \in 1..Len(modalSelectedFiles) :
        i # j => modalSelectedFiles[i].name # modalSelectedFiles[j].name

====
